---- MODULE Spec2Model ----
(***************************************************************************)
(* A model of sg::PE (src/pe.cpp): the constructor's parsing pipeline, the *)
(* RVA translator and the directory parsers.                               *)
(*                                                                         *)
(* Integers: TLC's integers are 32 bits wide, so the program's unsigned    *)
(* 32-bit words are modelled WordBits wide (arithmetic modulo 2^WordBits)  *)
(* and its 64-bit words twice that.  Every wrap-around of the code is kept *)
(* at the scaled width.                                                    *)
(***************************************************************************)
EXTENDS Integers, Sequences, FiniteSets, TLC

VARIABLES
    file,           \* the input file: what each read of the parser returns
    pc,             \* position of the constructor / of the call under study
    f,              \* the FILE* of PE::PE: "NULL", "open" or "closed"
    _initialized,   \* PE::_initialized
    ran,            \* history: the stages run so far, with their results
    _h_dos,         \* PE::_h_dos
    _h_pe,          \* PE::_h_pe
    _ioh,           \* PE::_ioh
    _sections,      \* PE::_sections, in table order
    _ied,           \* PE::_ied
    _exports,       \* PE::_exports
    _relocations,   \* PE::_relocations
    _tls,           \* PE::_tls
    _certificates,  \* PE::_certificates
    ret,            \* what the last directory parser did (result, bytes read)
    rva,            \* argument of the last _rva_to_offset call
    offset          \* result of the last _rva_to_offset call

vars == <<file, pc, f, _initialized, ran, _h_dos, _h_pe, _ioh, _sections, _ied,
          _exports, _relocations, _tls, _certificates, ret, rva, offset>>

-----------------------------------------------------------------------------
(* Word widths *)

\* width of the modelled unsigned int (the program's is 32)
WordBits == 8

\* modulus of unsigned int arithmetic
UIntMod == 2 ^ WordBits

\* modulus of boost::uint64_t arithmetic
UInt64Mod == UIntMod * UIntMod

\* x & 0xFFFFFFFF, and the conversion of a wider value to unsigned int
U32(x) == x % UIntMod

\* the largest number of sections in a section table
MaxSections == 2

-----------------------------------------------------------------------------
(* Sections and address translation *)

Section(va, vs, prd, rs) ==
    [VirtualAddress |-> va, VirtualSize |-> vs,
     PointerToRawData |-> prd, SizeOfRawData |-> rs]

\* utils::is_address_in_section(rva, section, check_raw_size)
is_address_in_section(r, s, check_raw_size) ==
    IF check_raw_size
    THEN s.VirtualAddress <= r /\ r < s.VirtualAddress + s.SizeOfRawData
    ELSE s.VirtualAddress <= r /\ r < s.VirtualAddress + s.VirtualSize

\* the loops of _rva_to_offset: index of the first section of secs, from i on,
\* that contains r (0: none; the loop ran to the end)
RECURSIVE FindSectionFrom(_, _, _, _)
FindSectionFrom(r, secs, raw, i) ==
    IF i > Len(secs) THEN 0
    ELSE IF is_address_in_section(r, secs[i], raw) THEN i
    ELSE FindSectionFrom(r, secs, raw, i + 1)

\* a scan without its break: the last matching section wins
RECURSIVE FindLastSectionFrom(_, _, _, _)
FindLastSectionFrom(r, secs, raw, i) ==
    IF i > Len(secs) THEN 0
    ELSE LET later == FindLastSectionFrom(r, secs, raw, i + 1) IN
         IF later # 0 THEN later
         ELSE IF is_address_in_section(r, secs[i], raw) THEN i ELSE 0

FindSection(r, secs, raw) == FindSectionFrom(r, secs, raw, 1)

\* PE::_rva_to_offset with the first loop's break left out
RvaToOffsetNoBreak(r, secs) ==
    IF Len(secs) = 0 THEN U32(r)
    ELSE LET section == FindLastSectionFrom(r, secs, FALSE, 1) IN
         IF section = 0 THEN 0
         ELSE U32((r - secs[section].VirtualAddress
                     + secs[section].PointerToRawData) % UInt64Mod)

\* PE::_rva_to_offset
_rva_to_offset(r, secs) ==
    IF Len(secs) = 0 THEN U32(r)
    ELSE LET section == FindSection(r, secs, FALSE) IN
         IF section = 0
         THEN \* the second loop assigns its own match to `section`, and
              \* the function then returns 0 whatever it found
              LET section2 == FindSection(r, secs, TRUE) IN 0
         ELSE U32((r - secs[section].VirtualAddress
                     + secs[section].PointerToRawData) % UInt64Mod)

\* PE::_va_to_offset
_va_to_offset(va, ioh, secs) ==
    IF va > ioh.ImageBase THEN _rva_to_offset(va - ioh.ImageBase, secs) ELSE 0

-----------------------------------------------------------------------------
(* The fixed-size headers.  A read of n bytes at position p of a file of   *)
(* size sz is short exactly when p + n > sz.                                *)

IMAGE_DIRECTORY_ENTRY_EXPORT == 0
IMAGE_DIRECTORY_ENTRY_SECURITY == 4
IMAGE_DIRECTORY_ENTRY_BASERELOC == 5
IMAGE_DIRECTORY_ENTRY_TLS == 9

\* sizeof(dos_header), sizeof(pe_header), sizeof(image_section_header)
SizeofDosHeader == 64
SizeofPeHeader == 24
SizeofSectionHeader == 40

NoDirectory == [VirtualAddress |-> 0, Size |-> 0]

\* memset(&_h_dos, 0, ...), memset(&_h_pe, 0, ...), memset(&_ioh, 0, ...)
ZeroDos == [e_magic |-> "", e_lfanew |-> 0]
ZeroPe == [Signature |-> "", NumberofSections |-> 0, SizeOfOptionalHeader |-> 0]
ZeroIoh == [Magic |-> "", ImageBase |-> 0, NumberOfRvaAndSizes |-> 0,
            directories |-> [d \in 0..15 |-> NoDirectory]]

ReadOk(fl, p, n) == p + n <= fl.size

\* fseek(f, off, SEEK_SET): fails on a file that cannot seek
FseekOk(fl) == fl.seekable

Min(a, b) == IF a < b THEN a ELSE b

\* PE::_parse_dos_header
_parse_dos_header(fl) ==
    IF SizeofDosHeader > fl.size THEN [ok |-> FALSE, h |-> ZeroDos]
    ELSE IF ~ReadOk(fl, 0, SizeofDosHeader) THEN [ok |-> FALSE, h |-> ZeroDos]
    ELSE LET h == [e_magic |-> fl.e_magic, e_lfanew |-> fl.e_lfanew] IN
         [ok |-> (h.e_magic = "MZ"), h |-> h]

\* PE::_parse_pe_header
_parse_pe_header(fl, dos) ==
    IF ~FseekOk(fl) THEN [ok |-> FALSE, h |-> ZeroPe]
    ELSE IF ~ReadOk(fl, dos.e_lfanew, SizeofPeHeader) THEN [ok |-> FALSE, h |-> ZeroPe]
    ELSE LET h == [Signature |-> fl.Signature,
                   NumberofSections |-> fl.NumberofSections,
                   SizeOfOptionalHeader |-> fl.SizeOfOptionalHeader] IN
         [ok |-> (h.Signature = "PE"), h |-> h]

\* the loop of _parse_image_optional_header reading the directory entries:
\* entry i is at position p; n entries are to be read
RECURSIVE ReadDirectories(_, _, _, _, _)
ReadDirectories(fl, h, p, i, n) ==
    IF i >= n THEN [ok |-> TRUE, h |-> h]
    ELSE IF ~ReadOk(fl, p, 8) THEN [ok |-> FALSE, h |-> h]
    ELSE ReadDirectories(fl,
            [h EXCEPT !.directories[i] = fl.directories[i]], p + 8, i + 1, n)

\* PE::_parse_image_optional_header
_parse_image_optional_header(fl, dos, pe) ==
    LET p0 == dos.e_lfanew + SizeofPeHeader
        h1 == [ZeroIoh EXCEPT !.Magic = fl.Magic]
        pe32 == fl.Magic = "PE32"
        \* BaseOfData and ImageBase (PE32), or the 8-byte ImageBase (PE32+)
        p1 == p0 + 24
        p2 == p1 + 8
        h2 == [h1 EXCEPT !.ImageBase = fl.ImageBase]
        \* the 0x28 bytes from SectionAlignment on
        p3 == p2 + 40
        \* SizeofStackReserve .. NumberOfRvaAndSizes
        tail == IF pe32 THEN 24 ELSE 40
        p4 == p3 + tail
        h4 == [h2 EXCEPT !.NumberOfRvaAndSizes = fl.NumberOfRvaAndSizes]
    IN  IF pe.SizeOfOptionalHeader = 0 THEN [ok |-> TRUE, h |-> ZeroIoh]
        ELSE IF ~FseekOk(fl) THEN [ok |-> FALSE, h |-> ZeroIoh]
        ELSE IF ~ReadOk(fl, p0, 24) THEN [ok |-> FALSE, h |-> ZeroIoh]
        ELSE IF h1.Magic # "PE32" /\ h1.Magic # "PE32+" THEN [ok |-> FALSE, h |-> h1]
        ELSE IF ~ReadOk(fl, p1, 8) THEN [ok |-> FALSE, h |-> h1]
        ELSE IF ~ReadOk(fl, p2, 40) THEN [ok |-> FALSE, h |-> h2]
        ELSE IF ~ReadOk(fl, p3, tail) THEN [ok |-> FALSE, h |-> h2]
        ELSE ReadDirectories(fl, h4, p4, 0, Min(h4.NumberOfRvaAndSizes, 16))

\* the loop of _parse_section_table: section i (from 0) is at position p
RECURSIVE ReadSections(_, _, _, _, _)
ReadSections(fl, secs, p, i, n) ==
    IF i >= n THEN [ok |-> TRUE, sections |-> secs]
    ELSE IF ~ReadOk(fl, p, SizeofSectionHeader) THEN [ok |-> FALSE, sections |-> secs]
    ELSE ReadSections(fl, Append(secs, fl.sectionTable[i + 1]),
                      p + SizeofSectionHeader, i + 1, n)

\* PE::_parse_section_table
_parse_section_table(fl, dos, pe, secs) ==
    IF ~FseekOk(fl) THEN [ok |-> FALSE, sections |-> secs]
    ELSE ReadSections(fl, secs,
            dos.e_lfanew + SizeofPeHeader + pe.SizeOfOptionalHeader,
            0, pe.NumberofSections)

\* the number of entries of image_optional_header::directories
DirectoryCount == 16

\* _ioh.directories[directory] as the build reads it: the entry of the table
\* for an index inside the array, and for an index outside it whatever lies
\* in memory there (beyond), which the program does not control
DirectoryAt(ioh, directory, beyond) ==
    IF directory \in 0..(DirectoryCount - 1) THEN ioh.directories[directory]
    ELSE beyond

\* PE::_reach_directory with the indexes at which it read _ioh.directories:
\* the guard is the code's directory > 0x10
ReachDirectory(fl, ioh, secs, directory, beyond) ==
    IF directory > 16 THEN [ok |-> FALSE, indexed |-> {}]
    ELSE LET d == DirectoryAt(ioh, directory, beyond)
             read == [ok |-> FALSE, indexed |-> {directory}]
         IN  IF d.VirtualAddress = 0 /\ d.Size = 0 THEN read
             ELSE IF d.Size # 0 /\ d.VirtualAddress = 0 THEN read
             ELSE LET off == _rva_to_offset(d.VirtualAddress, secs) IN
                  [read EXCEPT !.ok = ~(off = 0 \/ ~FseekOk(fl))]

\* PE::_reach_directory as the parsers call it, with a slot of the table
_reach_directory(fl, ioh, secs, directory) ==
    ReachDirectory(fl, ioh, secs, directory, NoDirectory).ok

-----------------------------------------------------------------------------
(* The export directory *)

\* utils::read_string_at_offset: the string read, or a failed read
Str(s) == [ok |-> TRUE, s |-> s]
NoStr == [ok |-> FALSE, s |-> ""]

\* memset(&_ied, 0, ied_size); NameStr starts as the empty string
ZeroIed == [Name |-> 0, Base |-> 0, NumberOfFunctions |-> 0, NumberOfNames |-> 0,
            AddressOfFunctions |-> 0, AddressOfNames |-> 0,
            AddressOfNameOrdinals |-> 0, NameStr |-> ""]

\* an ordinal that forgets the directory's Base
OrdinalWithoutBase(ied, i) == U32(i)

\* ex->Ordinal = _ied.Base + i, in unsigned int arithmetic
ExportOrdinal(ied, i) == U32(ied.Base + i)

\* the first loop of _parse_exports: function i (from 0) of the address table
RECURSIVE ReadFunctions(_, _, _, _, _, _)
ReadFunctions(fl, ioh, secs, ied, exports, i) ==
    IF i >= ied.NumberOfFunctions THEN [ok |-> TRUE, exports |-> exports]
    ELSE IF i + 1 > Len(fl.export.funcs) THEN [ok |-> FALSE, exports |-> exports]
    ELSE LET e == fl.export.funcs[i + 1]
             ex == [Address |-> e.Address, Ordinal |-> ExportOrdinal(ied, i),
                    Name |-> "", ForwardName |-> ""]
             export_dir == ioh.directories[IMAGE_DIRECTORY_ENTRY_EXPORT]
             forwarded == /\ ex.Address > export_dir.VirtualAddress
                          /\ ex.Address < U32(export_dir.VirtualAddress + export_dir.Size)
         IN  IF forwarded
             THEN IF _rva_to_offset(ex.Address, secs) = 0 \/ ~e.fwd.ok
                  THEN [ok |-> FALSE, exports |-> exports]
                  ELSE ReadFunctions(fl, ioh, secs, ied,
                         Append(exports, [ex EXCEPT !.ForwardName = e.fwd.s]), i + 1)
             ELSE ReadFunctions(fl, ioh, secs, ied, Append(exports, ex), i + 1)

\* the last loop of _parse_exports: name i (from 0).  _exports.at(ords[i])
\* is evaluated before read_string_at_offset is called, and throws
\* std::out_of_range when ords[i] is not below _exports.size()
RECURSIVE MatchNames(_, _, _, _, _)
MatchNames(fl, secs, ied, exports, i) ==
    IF i >= ied.NumberOfNames THEN [result |-> "true", exports |-> exports]
    ELSE LET name == fl.export.names[i + 1]
             ord == fl.export.ords[i + 1]
         IN  IF _rva_to_offset(name.rva, secs) = 0
             THEN [result |-> "false", exports |-> exports]
             ELSE IF ord > Len(exports)
             THEN [result |-> "false", exports |-> exports]
             ELSE IF ord >= Len(exports)
             THEN [result |-> "throw", exports |-> exports]
             ELSE IF ~name.str.ok
             THEN [result |-> "false", exports |-> exports]
             ELSE MatchNames(fl, secs, ied,
                    [exports EXCEPT ![ord + 1].Name = name.str.s], i + 1)

\* PE::_parse_exports
_parse_exports(fl, ioh, secs, ied0, exports0) ==
    LET x == fl.export
        ied1 == [ZeroIed EXCEPT !.NameStr = ied0.NameStr]
        ied2 == [x.ied EXCEPT !.NameStr = ied0.NameStr]
        ied3 == [ied2 EXCEPT !.NameStr = x.NameStr.s]
        fns == ReadFunctions(fl, ioh, secs, ied3, exports0, 0)
        fail(i, e) == [result |-> "false", ied |-> i, exports |-> e]
    IN  IF ~_reach_directory(fl, ioh, secs, IMAGE_DIRECTORY_ENTRY_EXPORT)
        THEN [result |-> "true", ied |-> ied1, exports |-> exports0]
        ELSE IF ~x.hdrOk THEN fail(ied1, exports0)
        ELSE IF _rva_to_offset(ied2.Name, secs) = 0 \/ ~x.NameStr.ok
        THEN fail(ied2, exports0)
        ELSE IF _rva_to_offset(ied3.AddressOfFunctions, secs) = 0 \/ ~FseekOk(fl)
        THEN fail(ied3, exports0)
        ELSE IF ~fns.ok THEN fail(ied3, fns.exports)
        ELSE IF _rva_to_offset(ied3.AddressOfNames, secs) = 0 \/ ~FseekOk(fl)
        THEN fail(ied3, fns.exports)
        ELSE IF Len(x.names) < ied3.NumberOfNames THEN fail(ied3, fns.exports)
        ELSE IF _rva_to_offset(ied3.AddressOfNameOrdinals, secs) = 0 \/ ~FseekOk(fl)
        THEN fail(ied3, fns.exports)
        ELSE IF Len(x.ords) < ied3.NumberOfNames THEN fail(ied3, fns.exports)
        ELSE LET m == MatchNames(fl, secs, ied3, fns.exports, 0) IN
             [result |-> m.result, ied |-> ied3, exports |-> m.exports]

-----------------------------------------------------------------------------
(* The base relocation table.  file.reloc.blocks[k] is the BlockSize of    *)
(* the k-th header the parser meets (zero past the listed ones) and        *)
(* file.reloc.avail the bytes the file holds from the start of the region. *)

BlockSizeAt(fl, k) == IF k <= Len(fl.reloc.blocks) THEN fl.reloc.blocks[k] ELSE 0

\* an entry count that takes the header to be the PageRVA alone
EntryCountShortHeader(BlockSize) == U32(BlockSize - 4) \div 2

\* (reloc->BlockSize - header_size) / sizeof(boost::uint16_t): the
\* subtraction is done in unsigned int
EntryCount(BlockSize) == U32(BlockSize - 8) \div 2

\* the while loop of _parse_relocations: the k-th header is at position pos
\* of the region.  attempts: per header read, the remaining size before it
\* and the entries read after it
RECURSIVE ReadBlocks(_, _, _, _, _, _)
ReadBlocks(fl, remaining_size, relocs, pos, k, attempts) ==
    IF ~(remaining_size > 0)
    THEN [ok |-> TRUE, relocations |-> relocs, bytesRead |-> pos, attempts |-> attempts]
    ELSE IF pos + 8 > fl.reloc.avail
    THEN [ok |-> FALSE, relocations |-> relocs,
          bytesRead |-> IF fl.reloc.avail > pos THEN fl.reloc.avail ELSE pos,
          attempts |-> attempts]
    ELSE LET BlockSize == BlockSizeAt(fl, k)
             count == EntryCount(BlockSize)
             canRead == (fl.reloc.avail - (pos + 8)) \div 2
         IN  IF BlockSize > remaining_size
             THEN [ok |-> FALSE, relocations |-> relocs, bytesRead |-> pos + 8,
                   attempts |-> Append(attempts, <<remaining_size, 0>>)]
             ELSE IF count > canRead
             THEN [ok |-> FALSE, relocations |-> relocs,
                   bytesRead |-> pos + 8 + 2 * canRead,
                   attempts |-> Append(attempts, <<remaining_size, canRead>>)]
             ELSE ReadBlocks(fl, U32(remaining_size - BlockSize),
                    Append(relocs, [BlockSize |-> BlockSize, TypesOffsets |-> count]),
                    pos + 8 + 2 * count, k + 1,
                    Append(attempts, <<remaining_size, count>>))

\* PE::_parse_relocations
_parse_relocations(fl, ioh, secs, relocs0) ==
    IF ~_reach_directory(fl, ioh, secs, IMAGE_DIRECTORY_ENTRY_BASERELOC)
    THEN [ok |-> TRUE, relocations |-> relocs0, bytesRead |-> 0, attempts |-> <<>>]
    ELSE ReadBlocks(fl, ioh.directories[IMAGE_DIRECTORY_ENTRY_BASERELOC].Size,
                    relocs0, 0, 1, <<>>)

-----------------------------------------------------------------------------
(* The TLS directory.  file.tls.hdrFields of the six header fields can be  *)
(* read before the end of the file; file.tls.callbacks are the values the  *)
(* callback table holds up to the end of the file.                         *)

ZeroTlsHeader == [StartAddressOfRawData |-> 0, EndAddressOfRawData |-> 0,
                  AddressOfIndex |-> 0, AddressOfCallbacks |-> 0,
                  SizeOfZeroFill |-> 0, Characteristics |-> 0]

TlsFieldOrder == <<"StartAddressOfRawData", "EndAddressOfRawData", "AddressOfIndex",
                   "AddressOfCallbacks", "SizeOfZeroFill", "Characteristics">>

ZeroTls == [hdr |-> ZeroTlsHeader, Callbacks |-> <<>>]

\* the header fields the freads of _parse_tls fill
ReadTlsHeader(fl) ==
    [n \in DOMAIN ZeroTlsHeader |->
        IF \E i \in 1..fl.tls.hdrFields : TlsFieldOrder[i] = n
        THEN fl.tls.hdr[n] ELSE 0]

\* the while (true) loop of _parse_tls: callback i (from 1) of the table
RECURSIVE ReadCallbacks(_, _, _)
ReadCallbacks(fl, callbacks, i) ==
    IF i > Len(fl.tls.callbacks) \/ fl.tls.callbacks[i] = 0 THEN callbacks
    ELSE ReadCallbacks(fl, Append(callbacks, fl.tls.callbacks[i]), i + 1)

\* PE::_parse_tls
_parse_tls(fl, ioh, secs, tls0) ==
    IF ~_reach_directory(fl, ioh, secs, IMAGE_DIRECTORY_ENTRY_TLS)
    THEN [ok |-> TRUE, tls |-> tls0]
    ELSE LET t1 == [tls0 EXCEPT !.hdr = ReadTlsHeader(fl)] IN
         IF fl.tls.hdrFields < 6 THEN [ok |-> FALSE, tls |-> t1]
         ELSE IF _va_to_offset(t1.hdr.AddressOfCallbacks, ioh, secs) = 0 \/ ~FseekOk(fl)
         THEN [ok |-> FALSE, tls |-> t1]
         ELSE [ok |-> TRUE,
               tls |-> [t1 EXCEPT !.Callbacks = ReadCallbacks(fl, tls0.Callbacks, 1)]]

-----------------------------------------------------------------------------
(* The certificate table.  file.cert.certs are the certificates the file   *)
(* holds, each starting at the next multiple of 8 after the one before     *)
(* it; file.cert.avail is the bytes the file holds from the region's start.*)

Align8(n) == ((n + 7) \div 8) * 8

RECURSIVE CertStart(_, _)
CertStart(certs, k) ==
    IF k <= 1 THEN 0 ELSE CertStart(certs, k - 1) + Align8(certs[k - 1].Length)

\* the WIN_CERTIFICATE header at position pos of the region: a
\* certificate's, or bytes that are no header
HeaderAt(fl, pos) ==
    IF \E k \in 1..Len(fl.cert.certs) : CertStart(fl.cert.certs, k) = pos
    THEN fl.cert.certs[CHOOSE k \in 1..Len(fl.cert.certs) :
                          CertStart(fl.cert.certs, k) = pos]
    ELSE [Length |-> 0, known |-> FALSE]

\* the while loop of _parse_certificates, the file at position pos of the
\* region.  wrapped: remaining_bytes went below zero
RECURSIVE ReadCertificates(_, _, _, _, _, _)
ReadCertificates(fl, remaining_bytes, certs, pos, starts, wrapped) ==
    LET out(ok) == [ok |-> ok, certificates |-> certs, starts |-> starts,
                    pos |-> pos, wrapped |-> wrapped]
    IN  IF ~(remaining_bytes > 8) THEN out(TRUE)
        ELSE IF pos + 8 > fl.cert.avail THEN out(TRUE)
        ELSE LET cert == HeaderAt(fl, pos) IN
             IF ~cert.known THEN out(TRUE)
             ELSE IF cert.Length < remaining_bytes THEN out(FALSE)
             ELSE IF pos + 8 + U32(cert.Length - 8) > fl.cert.avail THEN out(FALSE)
             ELSE LET rem1 == U32(remaining_bytes - cert.Length)
                      w1 == wrapped \/ cert.Length > remaining_bytes
                      padding == cert.Length % 8
                      skip == padding # 0 /\ rem1 # 0
                  IN  ReadCertificates(fl,
                         IF skip THEN U32(rem1 - padding) ELSE rem1,
                         Append(certs, cert),
                         IF skip THEN pos + cert.Length + padding ELSE pos + cert.Length,
                         Append(starts, pos),
                         w1 \/ (skip /\ padding > rem1))

\* PE::_parse_certificates
_parse_certificates(fl, ioh, certs0) ==
    LET d == ioh.directories[IMAGE_DIRECTORY_ENTRY_SECURITY] IN
    IF d.VirtualAddress = 0 \/ ~FseekOk(fl)
    THEN [ok |-> TRUE, certificates |-> certs0, starts |-> <<>>, pos |-> 0,
          wrapped |-> FALSE]
    ELSE ReadCertificates(fl, d.Size, certs0, 0, <<>>, FALSE)

-----------------------------------------------------------------------------
(* The input files *)

\* bounds of the input files
MaxFuncs == 2
MaxBlocks == 2
MaxCerts == 2
MaxCallbacks == 2

SeqsUpTo(S, n) == UNION {[1..k -> S] : k \in 0..n}

EmptyExport == [hdrOk |-> FALSE, ied |-> ZeroIed, NameStr |-> NoStr,
                funcs |-> <<>>, names |-> <<>>, ords |-> <<>>]
EmptyReloc == [blocks |-> <<>>, avail |-> 0]
EmptyTls == [hdrFields |-> 0, hdr |-> ZeroTlsHeader, callbacks |-> <<>>]
EmptyCert == [certs |-> <<>>, avail |-> 0]

\* a well-formed PE32 file with one section, mapping the RVAs 16..79 to the
\* offsets 32..95, and no directory
BaseFile ==
    [openOk |-> TRUE, seekable |-> TRUE, size |-> 1000,
     e_magic |-> "MZ", e_lfanew |-> 64, Signature |-> "PE",
     NumberofSections |-> 1, SizeOfOptionalHeader |-> 224,
     Magic |-> "PE32", ImageBase |-> 4, NumberOfRvaAndSizes |-> 16,
     directories |-> [d \in 0..15 |-> NoDirectory],
     sectionTable |-> <<Section(16, 64, 32, 64)>>,
     importsOk |-> TRUE, resourcesOk |-> TRUE, debugOk |-> TRUE,
     export |-> EmptyExport, reloc |-> EmptyReloc, tls |-> EmptyTls,
     cert |-> EmptyCert]

Dir(va, sz) == [VirtualAddress |-> va, Size |-> sz]

WithDir(fl, slot, d) == [fl EXCEPT !.directories[slot] = d]

\* files whose headers and section table vary
HeaderFaults == {"none", "open", "seek", "e_magic", "Signature"}

HeaderFile(fault, sz, soh, magic, nrs, secs) ==
    [BaseFile EXCEPT
        !.openOk = (fault # "open"), !.seekable = (fault # "seek"),
        !.e_magic = IF fault = "e_magic" THEN "ZM" ELSE "MZ",
        !.Signature = IF fault = "Signature" THEN "NE" ELSE "PE",
        !.size = sz, !.SizeOfOptionalHeader = soh, !.Magic = magic,
        !.NumberOfRvaAndSizes = nrs,
        !.NumberofSections = Len(secs), !.sectionTable = secs,
        !.directories[1] = Dir(16, 8)]

HeaderFiles ==
    {HeaderFile(fault, sz, soh, magic, nrs, <<Section(16, 64, 32, 64)>>) :
        fault \in HeaderFaults, sz \in {10, 70, 100, 130, 190, 330, 1000},
        soh \in {0, 224}, magic \in {"PE32", "PE32+", "ROM"},
        nrs \in {0, 16, 17}}
    \cup
    {HeaderFile("none", sz, soh, "PE32", 16, secs) :
        sz \in {330, 360, 1000}, soh \in {0, 224},
        secs \in SeqsUpTo({Section(16, 64, 32, 64), Section(0, 8, 0, 8)}, MaxSections)}

\* files whose external parsers (imports, resources, debug) fail
ExternalFiles ==
    {[BaseFile EXCEPT !.importsOk = i, !.resourcesOk = r, !.debugOk = d] :
        i \in BOOLEAN, r \in BOOLEAN, d \in BOOLEAN}

\* export regions: n functions, the first one forwarded or not, the name
\* ordinals o, and at most one fault <<kind, index>>
ExportTableFaults ==
    {"none", "hdr", "Name", "NameStr", "AddressOfFunctions", "funcs", "fwd",
     "AddressOfNames", "names", "AddressOfNameOrdinals", "ords"}

ExportNameFaults == {"nameRva", "nameStr", "nameEmpty"}

ExportFaults(m) ==
    {<<k, 0>> : k \in ExportTableFaults} \cup (ExportNameFaults \X (1..m))

ExportRegion(base, n, forwardFirst, o, fault) ==
    LET m == Len(o)
        kind == fault[1]
        nfuncs == IF kind = "funcs" /\ n > 0 THEN n - 1 ELSE n
        nnames == IF kind = "names" /\ m > 0 THEN m - 1 ELSE m
        nords == IF kind = "ords" /\ m > 0 THEN m - 1 ELSE m
    IN  [hdrOk |-> kind # "hdr",
         ied |-> [Name |-> IF kind = "Name" THEN 200 ELSE 30,
                  Base |-> base, NumberOfFunctions |-> n, NumberOfNames |-> m,
                  AddressOfFunctions |-> IF kind = "AddressOfFunctions" THEN 200 ELSE 40,
                  AddressOfNames |-> IF kind = "AddressOfNames" THEN 200 ELSE 50,
                  AddressOfNameOrdinals |->
                      IF kind = "AddressOfNameOrdinals" THEN 200 ELSE 60,
                  NameStr |-> ""],
         NameStr |-> IF kind = "NameStr" THEN NoStr ELSE Str("lib.dll"),
         funcs |-> [i \in 1..nfuncs |->
                      IF i = 1 /\ forwardFirst
                      THEN [Address |-> 20,
                            fwd |-> IF kind = "fwd" THEN NoStr ELSE Str("other.f")]
                      ELSE [Address |-> 100 + i, fwd |-> NoStr]],
         names |-> [i \in 1..nnames |->
                      [rva |-> IF fault = <<"nameRva", i>> THEN 200 ELSE 70,
                       str |-> IF fault = <<"nameStr", i>> THEN NoStr
                               ELSE IF fault = <<"nameEmpty", i>> THEN Str("")
                               ELSE Str("name")]],
         ords |-> [i \in 1..nords |-> o[i]]]

\* every table of name ordinals with no fault, and every fault with the
\* name ordinals 0, 1, ...
ExportRegions ==
    UNION {{ExportRegion(bf[1], n, bf[2], o, <<"none", 0>>) :
               bf \in {<<1, FALSE>>, <<1, TRUE>>, <<UIntMod - 1, FALSE>>},
               o \in UNION {[1..m -> 0..(n + 1)] : m \in 0..n}}
           \cup
           UNION {{ExportRegion(bf[1], n, bf[2], [i \in 1..m |-> i - 1], fault) :
                      bf \in {<<1, FALSE>>, <<1, TRUE>>, <<UIntMod - 1, FALSE>>},
                      fault \in ExportFaults(m)} : m \in 0..n} :
           n \in 0..MaxFuncs}

ExportFiles ==
    {[WithDir(BaseFile, IMAGE_DIRECTORY_ENTRY_EXPORT, Dir(16, 8)) EXCEPT !.export = x] :
        x \in ExportRegions}

\* relocation regions
RelocFiles ==
    {[WithDir(BaseFile, IMAGE_DIRECTORY_ENTRY_BASERELOC, Dir(16, sz)) EXCEPT
         !.reloc = [blocks |-> b, avail |-> a]] :
        sz \in {0, 4, 10, 22, 24},
        b \in SeqsUpTo({0, 4, 10, 12}, MaxBlocks),
        a \in {4, 12, 22, 40, 2 * UIntMod}}

\* TLS regions
TlsFiles ==
    {[WithDir(BaseFile, IMAGE_DIRECTORY_ENTRY_TLS, Dir(16, 24)) EXCEPT
         !.Magic = magic,
         !.tls = [hdrFields |-> n,
                  hdr |-> [StartAddressOfRawData |-> 50, EndAddressOfRawData |-> 60,
                           AddressOfIndex |-> 70, AddressOfCallbacks |-> aoc,
                           SizeOfZeroFill |-> 1, Characteristics |-> 2],
                  callbacks |-> c]] :
        magic \in {"PE32", "PE32+"}, n \in {0, 3, 6}, aoc \in {3, 44, 250},
        c \in SeqsUpTo({0, 7, 9}, MaxCallbacks)}

\* certificate regions
CertFiles ==
    {[WithDir(BaseFile, IMAGE_DIRECTORY_ENTRY_SECURITY, Dir(va, sz)) EXCEPT
         !.cert = [certs |-> c, avail |-> a]] :
        va \in {96}, sz \in {0, 8, 12, 26, 28, 32},
        c \in SeqsUpTo({[Length |-> 10, known |-> TRUE], [Length |-> 12, known |-> TRUE],
                        [Length |-> 16, known |-> TRUE], [Length |-> 12, known |-> FALSE]},
                       MaxCerts),
        a \in {4, 12, 28, 64}}
    \cup
    {[WithDir(BaseFile, IMAGE_DIRECTORY_ENTRY_SECURITY, Dir(0, 12)) EXCEPT
         !.cert = [certs |-> <<[Length |-> 12, known |-> TRUE]>>, avail |-> 12]]}

\* files whose directory entries are absent, empty or unreachable
DirectoryFiles ==
    {WithDir([BaseFile EXCEPT !.export = ExportRegion(1, 1, FALSE, <<0>>, <<"none", 0>>),
                              !.reloc = [blocks |-> <<8>>, avail |-> 8],
                              !.seekable = sk],
             slot, Dir(va, sz)) :
        slot \in {IMAGE_DIRECTORY_ENTRY_EXPORT, IMAGE_DIRECTORY_ENTRY_BASERELOC},
        va \in {0, 16, 200}, sz \in {0, 8}, sk \in BOOLEAN}

Files == HeaderFiles \cup ExternalFiles \cup DirectoryFiles \cup ExportFiles
            \cup RelocFiles \cup TlsFiles \cup CertFiles

-----------------------------------------------------------------------------
(* PE::PE *)

NoRet == [stage |-> "", result |-> "", bytesRead |-> 0, attempts |-> <<>>,
          starts |-> <<>>, wrapped |-> FALSE, slot |-> 0, indexed |-> {}]

\* the object when the constructor's body starts
Fresh ==
    /\ f = "NULL"
    /\ _initialized = FALSE
    /\ ran = <<>>
    /\ _h_dos = ZeroDos
    /\ _h_pe = ZeroPe
    /\ _ioh = ZeroIoh
    /\ _ied = ZeroIed
    /\ _exports = <<>>
    /\ _relocations = <<>>
    /\ _tls = ZeroTls
    /\ _certificates = <<>>
    /\ ret = NoRet
    /\ rva = 0
    /\ offset = 0

Init ==
    /\ file \in Files
    /\ pc = "start"
    /\ _sections = <<>>
    /\ Fresh

headers == <<_h_dos, _h_pe, _ioh, _sections>>
structures == <<_ied, _exports, _relocations, _tls, _certificates>>
call == <<rva, offset>>

Bool(b) == IF b THEN "true" ELSE "false"

\* a constructor that goes on after a failed fopen
OpenUnchecked ==
    /\ pc = "start"
    /\ f' = IF file.openOk THEN "open" ELSE "NULL"
    /\ pc' = "dos"
    /\ UNCHANGED <<file, _initialized, ran, headers, structures, ret, call>>

\* FILE* f = fopen(...); if (f == NULL) goto END;
Open ==
    /\ pc = "start"
    /\ f' = IF file.openOk THEN "open" ELSE "NULL"
    /\ pc' = IF file.openOk THEN "dos" ELSE "END"
    /\ UNCHANGED <<file, _initialized, ran, headers, structures, ret, call>>

\* if (!_parse_dos_header(f)) goto END;
ParseDosHeader ==
    /\ pc = "dos"
    /\ LET r == _parse_dos_header(file) IN
        /\ _h_dos' = r.h
        /\ ran' = Append(ran, <<"dos", Bool(r.ok)>>)
        /\ pc' = IF r.ok THEN "pe" ELSE "END"
    /\ UNCHANGED <<file, f, _initialized, _h_pe, _ioh, _sections, structures, ret, call>>

\* if (!_parse_pe_header(f)) goto END;
ParsePeHeader ==
    /\ pc = "pe"
    /\ LET r == _parse_pe_header(file, _h_dos) IN
        /\ _h_pe' = r.h
        /\ ran' = Append(ran, <<"pe", Bool(r.ok)>>)
        /\ pc' = IF r.ok THEN "ioh" ELSE "END"
    /\ UNCHANGED <<file, f, _initialized, _h_dos, _ioh, _sections, structures, ret, call>>

\* if (!_parse_image_optional_header(f)) goto END;
ParseImageOptionalHeader ==
    /\ pc = "ioh"
    /\ LET r == _parse_image_optional_header(file, _h_dos, _h_pe) IN
        /\ _ioh' = r.h
        /\ ran' = Append(ran, <<"ioh", Bool(r.ok)>>)
        /\ pc' = IF r.ok THEN "sections" ELSE "END"
    /\ UNCHANGED <<file, f, _initialized, _h_dos, _h_pe, _sections, structures, ret, call>>

\* if (!_parse_section_table(f)) goto END;
ParseSectionTable ==
    /\ pc = "sections"
    /\ LET r == _parse_section_table(file, _h_dos, _h_pe, _sections) IN
        /\ _sections' = r.sections
        /\ ran' = Append(ran, <<"sections", Bool(r.ok)>>)
        /\ pc' = IF r.ok THEN "imports" ELSE "END"
    /\ UNCHANGED <<file, f, _initialized, _h_dos, _h_pe, _ioh, structures, ret, call>>

\* a step of _parse_directories: a parser returned `result`; the && chain
\* goes on to `next` after true and _parse_directories returns false after
\* false; an exception leaves the constructor at once
AfterParser(stage, result, next) ==
    /\ pc' = CASE result = "true" -> next
               [] result = "false" -> "END"
               [] OTHER -> "thrown"
    /\ ran' = IF result = "true" THEN ran ELSE Append(ran, <<"directories", result>>)

\* _parse_imports, _parse_resources, _parse_debug: (file handle) -> success | failure
ParseExternal(stage, ok, next) ==
    /\ pc = stage
    /\ AfterParser(stage, Bool(ok), next)
    /\ ret' = [NoRet EXCEPT !.stage = stage, !.result = Bool(ok)]
    /\ UNCHANGED <<file, f, _initialized, headers, structures, call>>

ParseImports == ParseExternal("imports", file.importsOk, "exports")
ParseResources == ParseExternal("resources", file.resourcesOk, "debug")
ParseDebug == ParseExternal("debug", file.debugOk, "relocations")

ParseExports ==
    /\ pc = "exports"
    /\ LET r == _parse_exports(file, _ioh, _sections, _ied, _exports) IN
        /\ _ied' = r.ied
        /\ _exports' = r.exports
        /\ ret' = [NoRet EXCEPT !.stage = "exports", !.result = r.result]
        /\ AfterParser("exports", r.result, "resources")
    /\ UNCHANGED <<file, f, _initialized, headers, _relocations, _tls, _certificates, call>>

ParseRelocations ==
    /\ pc = "relocations"
    /\ LET r == _parse_relocations(file, _ioh, _sections, _relocations) IN
        /\ _relocations' = r.relocations
        /\ ret' = [NoRet EXCEPT !.stage = "relocations", !.result = Bool(r.ok),
                                !.bytesRead = r.bytesRead, !.attempts = r.attempts]
        /\ AfterParser("relocations", Bool(r.ok), "tls")
    /\ UNCHANGED <<file, f, _initialized, headers, _ied, _exports, _tls, _certificates, call>>

ParseTls ==
    /\ pc = "tls"
    /\ LET r == _parse_tls(file, _ioh, _sections, _tls) IN
        /\ _tls' = r.tls
        /\ ret' = [NoRet EXCEPT !.stage = "tls", !.result = Bool(r.ok)]
        /\ AfterParser("tls", Bool(r.ok), "certificates")
    /\ UNCHANGED <<file, f, _initialized, headers, _ied, _exports, _relocations,
                   _certificates, call>>

\* the last parser of _parse_directories; then _initialized = true
ParseCertificates ==
    /\ pc = "certificates"
    /\ LET r == _parse_certificates(file, _ioh, _certificates) IN
        /\ _certificates' = r.certificates
        /\ ret' = [NoRet EXCEPT !.stage = "certificates", !.result = Bool(r.ok),
                                !.bytesRead = r.pos, !.starts = r.starts,
                                !.wrapped = r.wrapped]
        /\ pc' = "END"
        /\ ran' = Append(ran, <<"directories", Bool(r.ok)>>)
        /\ _initialized' = r.ok
    /\ UNCHANGED <<file, f, headers, _ied, _exports, _relocations, _tls, call>>

\* END: if (f != NULL) fclose(f);
End ==
    /\ pc = "END"
    /\ f' = IF f # "NULL" THEN "closed" ELSE f
    /\ pc' = "done"
    /\ UNCHANGED <<file, _initialized, ran, headers, structures, ret, call>>

Next ==
    \/ Open
    \/ ParseDosHeader
    \/ ParsePeHeader
    \/ ParseImageOptionalHeader
    \/ ParseSectionTable
    \/ ParseImports
    \/ ParseExports
    \/ ParseResources
    \/ ParseDebug
    \/ ParseRelocations
    \/ ParseTls
    \/ ParseCertificates
    \/ End

Spec == Init /\ [][Next]_vars

-----------------------------------------------------------------------------
(* _rva_to_offset on its own: an image whose section table is loaded, and  *)
(* calls of the translator.                                                *)

SectionLists ==
    SeqsUpTo({Section(va, vs, prd, rs) :
                 va \in {0, 4}, vs \in {2, 8}, prd \in {2, UIntMod - 1}, rs \in {2, 16}},
             MaxSections)

Rvas == {0, 3, 5, 9, 13, 30, UIntMod + 5, UInt64Mod - 1}

InitRva ==
    /\ file = BaseFile
    /\ pc = "loaded"
    /\ _sections \in SectionLists
    /\ Fresh

Translate ==
    /\ pc \in {"loaded", "translated"}
    /\ \E r \in Rvas :
        /\ rva' = r
        /\ offset' = _rva_to_offset(r, _sections)
    /\ pc' = "translated"
    /\ UNCHANGED <<file, f, _initialized, ran, headers, structures, ret>>

NextRva == Translate

SpecRva == InitRva /\ [][NextRva]_vars

-----------------------------------------------------------------------------
(* _reach_directory alone, on a loaded image, for any slot number *)

\* the largest slot number a call is made with
MaxSlot == 17

\* directory entries: empty, with no address, with no size, inside the
\* section and outside every section
DirectoryEntries == {Dir(0, 0), Dir(0, 8), Dir(16, 0), Dir(16, 8), Dir(200, 8)}

\* what a read past the end of _ioh.directories can find
BeyondEntries == DirectoryEntries

\* optional headers whose table holds one entry that is not empty
ReachHeaders ==
    {[ZeroIoh EXCEPT !.directories[s] = d] :
        s \in 0..(DirectoryCount - 1), d \in DirectoryEntries}

InitReach ==
    /\ file \in {BaseFile, [BaseFile EXCEPT !.seekable = FALSE]}
    /\ pc = "loaded"
    /\ f = "open"
    /\ _initialized = FALSE
    /\ ran = <<>>
    /\ _h_dos = ZeroDos
    /\ _h_pe = ZeroPe
    /\ _ioh \in ReachHeaders
    /\ _sections \in {<<>>, BaseFile.sectionTable}
    /\ _ied = ZeroIed
    /\ _exports = <<>>
    /\ _relocations = <<>>
    /\ _tls = ZeroTls
    /\ _certificates = <<>>
    /\ ret = NoRet
    /\ rva = 0
    /\ offset = 0

\* one call _reach_directory(f, slot)
Reach ==
    /\ pc \in {"loaded", "reached"}
    /\ \E slot \in 0..MaxSlot, beyond \in BeyondEntries :
        LET r == ReachDirectory(file, _ioh, _sections, slot, beyond) IN
        ret' = [NoRet EXCEPT !.stage = "reach", !.result = Bool(r.ok),
                             !.slot = slot, !.indexed = r.indexed]
    /\ pc' = "reached"
    /\ UNCHANGED <<file, f, _initialized, ran, headers, structures, call>>

NextReach == Reach

SpecReach == InitReach /\ [][NextReach]_vars

-----------------------------------------------------------------------------
(* Properties *)

StageOrder == <<"dos", "pe", "ioh", "sections", "directories">>

\* the stage the constructor is in or about to run at pc (0: none)
StageAt(p) ==
    CASE p = "dos" -> 1
      [] p = "pe" -> 2
      [] p = "ioh" -> 3
      [] p = "sections" -> 4
      [] p \in {"imports", "exports", "resources", "debug", "relocations", "tls",
                "certificates"} -> 5
      [] OTHER -> 0

AllSucceeded(n) == Len(ran) = n /\ \A i \in 1..n : ran[i][2] = "true"

\* C1: the constructor runs the stages in the order DOS header, PE header,
\* optional header, section table, directories; a stage runs only with the
\* file open and every earlier stage successful; and when the constructor
\* ends, _initialized is true exactly when all five stages succeeded.
C1_StagesInOrder ==
    /\ Len(ran) <= 5
    /\ \A i \in 1..Len(ran) :
          /\ ran[i][1] = StageOrder[i]
          /\ i < Len(ran) => ran[i][2] = "true"
    /\ ran # <<>> => file.openOk
    /\ StageAt(pc) # 0 => f = "open" /\ file.openOk /\ AllSucceeded(StageAt(pc) - 1)
    /\ pc # "done" /\ _initialized => pc = "END" /\ AllSucceeded(5)
    /\ pc = "done" => (_initialized <=> (file.openOk /\ AllSucceeded(5)))

C1_Witness == pc = "done" /\ _initialized /\ AllSucceeded(5) /\ f = "closed"

InVirtualRange(r, s) ==
    s.VirtualAddress <= r /\ r < s.VirtualAddress + s.VirtualSize

InRawRange(r, s) ==
    s.VirtualAddress <= r /\ r < s.VirtualAddress + s.SizeOfRawData

Translated(r, s) == (r - s.VirtualAddress + s.PointerToRawData) % UIntMod

FirstIndex(P(_), n) == CHOOSE i \in 1..n : P(i) /\ \A j \in 1..(i - 1) : ~P(j)

C3_RawSizeFallback ==
    pc = "translated" /\ _sections # <<>>
        /\ (\A i \in 1..Len(_sections) : ~InVirtualRange(rva, _sections[i])) =>
        LET InR(i) == InRawRange(rva, _sections[i]) IN
        offset = IF \E i \in 1..Len(_sections) : InR(i)
                 THEN Translated(rva, _sections[FirstIndex(InR, Len(_sections))])
                 ELSE 0

\* the security directory of the file holds exactly two valid certificates,
\* back to back, whose lengths are no multiples of 8, and is all in the file
TwoCertificateChain ==
    LET c == file.cert.certs
        d == file.directories[IMAGE_DIRECTORY_ENTRY_SECURITY]
    IN  /\ Len(c) = 2
        /\ \A k \in 1..2 : c[k].known /\ c[k].Length > 8 /\ c[k].Length % 8 # 0
        /\ d.VirtualAddress # 0
        /\ d.Size \in {Align8(c[1].Length) + c[2].Length,
                       Align8(c[1].Length) + Align8(c[2].Length)}
        /\ file.cert.avail >= d.Size
        /\ file.seekable

\* C4: a security directory of two back-to-back valid certificates whose
\* lengths are no multiples of 8 parses with success into exactly two
\* certificates, the second read at the next multiple of 8 after the first,
\* and the bytes consumed never exceed the directory's Size (the
\* remaining-bytes counter never goes below zero).
C4_TwoCertificates ==
    ret.stage = "certificates" /\ TwoCertificateChain =>
        /\ ret.result = "true"
        /\ Len(_certificates) = 2
        /\ ret.starts = <<0, Align8(file.cert.certs[1].Length)>>
        /\ ~ret.wrapped
        /\ ret.bytesRead <= file.directories[IMAGE_DIRECTORY_ENTRY_SECURITY].Size

\* the export directory of the file is present and every table of it can be
\* read: NumberOfFunctions addresses, and NumberOfNames <= NumberOfFunctions
\* names with non-empty strings, whose name ordinals are in range and name
\* NumberOfNames different functions
WellFormedExports ==
    LET x == file.export
        n == x.ied.NumberOfFunctions
        m == x.ied.NumberOfNames
        d == file.directories[IMAGE_DIRECTORY_ENTRY_EXPORT]
        ok(r) == _sections # <<>> /\ \E i \in 1..Len(_sections) :
                                        /\ InVirtualRange(r, _sections[i])
                                        /\ Translated(r, _sections[i]) # 0
    IN  /\ _ioh.directories[IMAGE_DIRECTORY_ENTRY_EXPORT] = d
        /\ d.VirtualAddress # 0 /\ ok(d.VirtualAddress)
        /\ file.seekable
        /\ x.hdrOk /\ x.NameStr.ok
        /\ ok(x.ied.Name) /\ ok(x.ied.AddressOfFunctions)
        /\ ok(x.ied.AddressOfNames) /\ ok(x.ied.AddressOfNameOrdinals)
        /\ m <= n
        /\ Len(x.funcs) >= n /\ Len(x.names) >= m /\ Len(x.ords) >= m
        /\ \A i \in 1..n :
              (x.funcs[i].Address > d.VirtualAddress
                 /\ x.funcs[i].Address < (d.VirtualAddress + d.Size) % UIntMod)
              => ok(x.funcs[i].Address) /\ x.funcs[i].fwd.ok
        /\ \A i \in 1..m :
              /\ ok(x.names[i].rva)
              /\ x.names[i].str.ok /\ x.names[i].str.s # ""
              /\ x.ords[i] < n
              /\ \A j \in 1..m : x.ords[i] = x.ords[j] => i = j

\* C5: for an export directory with N functions and M <= N named entries,
\* all tables readable, _parse_exports returns success with exactly N
\* exported functions in table order, entry i (from 0) having the ordinal
\* Base + i in unsigned int arithmetic, and exactly M of them named.
C5_ExportsList ==
    ret.stage = "exports" /\ WellFormedExports =>
        LET x == file.export
            n == x.ied.NumberOfFunctions
        IN  /\ ret.result = "true"
            /\ Len(_exports) = n
            /\ \A i \in 1..n :
                  /\ _exports[i].Address = x.funcs[i].Address
                  /\ _exports[i].Ordinal = (x.ied.Base + (i - 1)) % UIntMod
            /\ Cardinality({i \in 1..n : _exports[i].Name # ""}) = x.ied.NumberOfNames

C5_Witness ==
    /\ ret.stage = "exports" /\ WellFormedExports
    /\ file.export.ied.NumberOfFunctions = 2
    /\ file.export.ied.NumberOfNames = 1
    /\ Len(_exports) = 2
    /\ _exports[1].Name = "" /\ _exports[2].Name = "name"
    /\ _exports[2].Ordinal = 2


\* the relocation directory of the file can be reached
RelocationsReached ==
    LET d == file.directories[IMAGE_DIRECTORY_ENTRY_BASERELOC] IN
    /\ _ioh.directories[IMAGE_DIRECTORY_ENTRY_BASERELOC] = d
    /\ d.VirtualAddress # 0
    /\ _sections # <<>>
    /\ \E i \in 1..Len(_sections) :
          /\ InVirtualRange(d.VirtualAddress, _sections[i])
          /\ Translated(d.VirtualAddress, _sections[i]) # 0
    /\ file.seekable

\* (BlockSize - 8) / 2 in unsigned int arithmetic
Entries(BlockSize) == ((BlockSize - 8) % UIntMod) \div 2

RECURSIVE SumBlockSizes(_, _)
SumBlockSizes(b, k) == IF k = 0 THEN 0 ELSE SumBlockSizes(b, k - 1) + b[k]

\* the bytes of the first k blocks, headers and entries
RECURSIVE BlockBytes(_, _)
BlockBytes(b, k) ==
    IF k = 0 THEN 0 ELSE BlockBytes(b, k - 1) + 8 + 2 * Entries(b[k])

\* the first k blocks of the file are in the file whole, and do not use up
\* the declared size before the last of them
BlocksReadable(k) ==
    LET b == file.reloc.blocks
        size == file.directories[IMAGE_DIRECTORY_ENTRY_BASERELOC].Size
    IN  /\ k <= Len(b)
        /\ BlockBytes(b, k) <= file.reloc.avail
        /\ \A j \in 0..(k - 1) : SumBlockSizes(b, j) < size
        /\ SumBlockSizes(b, k) <= size

\* C6: a reachable relocation directory whose declared Size is used up
\* exactly by a sequence of blocks that are in the file whole parses with
\* success into one block per header, in file order, each with
\* (BlockSize - 8) / 2 entries; and a header whose BlockSize is larger than
\* the remaining declared size makes the parser return failure.
C6_RelocationBlocks ==
    ret.stage = "relocations" /\ RelocationsReached =>
        LET b == file.reloc.blocks
            size == file.directories[IMAGE_DIRECTORY_ENTRY_BASERELOC].Size
        IN  /\ \A k \in 0..Len(b) :
                  BlocksReadable(k) /\ SumBlockSizes(b, k) = size =>
                      /\ ret.result = "true"
                      /\ _relocations =
                            [i \in 1..k |-> [BlockSize |-> b[i],
                                             TypesOffsets |-> Entries(b[i])]]
            /\ \A k \in 1..Len(b) :
                  /\ BlocksReadable(k - 1)
                  /\ SumBlockSizes(b, k - 1) < size
                  /\ BlockBytes(b, k - 1) + 8 <= file.reloc.avail
                  /\ b[k] > size - SumBlockSizes(b, k - 1)
                  => ret.result = "false"

C6_Witness ==
    /\ ret.stage = "relocations" /\ RelocationsReached
    /\ file.directories[IMAGE_DIRECTORY_ENTRY_BASERELOC].Size = 22
    /\ ret.result = "true"
    /\ _relocations = <<[BlockSize |-> 10, TypesOffsets |-> 1],
                        [BlockSize |-> 12, TypesOffsets |-> 2]>>

\* C7: the file opened at the start of the constructor is closed on every
\* path by which the constructor ends: success, a failed stage, or an
\* exception raised inside a stage.
C7_HandleClosed == pc \in {"done", "thrown"} => f # "open"

\* C8: in the name matching of _parse_exports, a name ordinal that is not
\* below the number of exported functions makes the parser return failure;
\* it is never used to access the list and no exception leaves the parser.
C8_OrdinalOutOfRange ==
    ret.stage = "exports" =>
        /\ ret.result # "throw"
        /\ ret.result = "true" =>
              \A i \in 1..(_ied.NumberOfNames) : file.export.ords[i] < Len(_exports)

\* C9: when _parse_exports, _parse_relocations or _parse_tls returns
\* failure, the structure it fills is in its zeroed initial state: the list
\* is empty and the header fields are zero.
C9_FailureLeavesZeroed ==
    /\ ret.stage = "exports" /\ ret.result = "false" =>
          _exports = <<>> /\ _ied = ZeroIed
    /\ ret.stage = "relocations" /\ ret.result = "false" => _relocations = <<>>
    /\ ret.stage = "tls" /\ ret.result = "false" => _tls = ZeroTls

\* C10: for every sequence of block headers, the entries read for a block
\* are at most (remaining declared size - 8) / 2, so the bytes read from the
\* relocation region never exceed the directory's declared Size.
C10_ReadsWithinSize ==
    ret.stage = "relocations" /\ RelocationsReached =>
        /\ \A i \in 1..Len(ret.attempts) :
              ret.attempts[i][2] > 0 =>
                  8 + 2 * ret.attempts[i][2] <= ret.attempts[i][1]
        /\ ret.bytesRead <= file.directories[IMAGE_DIRECTORY_ENTRY_BASERELOC].Size

\* C11: a call of _reach_directory with a slot greater than 15 returns
\* failure and reads _ioh.directories at no index; every call reads the
\* table at indexes 0..15 only
C11_SlotsAbove15Rejected ==
    ret.stage = "reach" =>
        /\ ret.indexed \subseteq 0..(DirectoryCount - 1)
        /\ (ret.slot > 15 => (ret.result = "false" /\ ret.indexed = {}))

====
